---- MODULE Spec2Model ----
(***************************************************************************)
(* Model of src/src/model/module.rs (AluVM assembler module format):       *)
(*   - CallTable: find_or_insert, get_mut, routines, call_refs             *)
(*   - the binary codec of DataType, Variable, CallRef, CallTable, Module  *)
(*                                                                         *)
(* Two specifications:                                                     *)
(*   Spec       the CallTable driven by find_or_insert / get_mut calls,    *)
(*              starting from the empty table (CallTable::default()).      *)
(*   SpecCodec  a Module drawn from a bounded set, encoded, possibly       *)
(*              truncated, and decoded again; and hand-written Variable    *)
(*              encodings decoded by Variable::decode.                     *)
(***************************************************************************)
EXTENDS Integers, Sequences, FiniteSets, TLC

(***************************************************************************)
(* Bounds.  The index type u16 is kept as a modular integer, but its width *)
(* is scaled from 16 bits to IndexBits bits in Spec so that a library's    *)
(* sequence can outgrow the index range within the explored states; the    *)
(* library capacity LIBS_SEGMENT_MAX_COUNT is scaled to MaxLibs and stays  *)
(* below the largest index, as it does in the build.  MaxRoutines bounds   *)
(* the distinct routine names and MaxEntries the CallRefs a table is grown *)
(* to; LibIdWidth is the scaled byte width of a LibId; MaxVars (below)     *)
(* bounds the variables of a Module.                                       *)
(***************************************************************************)
IndexBits == 2

MaxLibs == 2

MaxRoutines == 5

MaxEntries == 5

LibIdWidth == 2

(***************************************************************************)
(* LibId: an opaque fixed-width byte string, totally ordered (derive Ord   *)
(* on a byte array: lexicographic).                                        *)
(***************************************************************************)
MkLibId(a, b) ==
    [i \in 1..LibIdWidth |-> IF i = 1 THEN a ELSE IF i = LibIdWidth THEN b ELSE 0]

LibIds == {MkLibId(0, 2), MkLibId(1, 0), MkLibId(1, 1)}

RECURSIVE SeqLess(_, _)
SeqLess(a, b) ==
    IF a = <<>> THEN b # <<>>
    ELSE IF b = <<>> THEN FALSE
    ELSE IF Head(a) # Head(b) THEN Head(a) < Head(b)
    ELSE SeqLess(Tail(a), Tail(b))

LibIdLess(a, b) == SeqLess(a, b)

\* Routine names are strings, kept as their UTF-8 bytes: "a", "b", ...
RoutineName(k) == <<96 + k>>

Routines == {RoutineName(k) : k \in 1..MaxRoutines}

(***************************************************************************)
(* u16 and the capacity constants.                                         *)
(***************************************************************************)
U16Modulus == 2 ^ IndexBits

U16_MAX == U16Modulus - 1

as_u16(n) == n % U16Modulus

LIBS_SEGMENT_MAX_COUNT == MaxLibs

(***************************************************************************)
(* CallRef and CallTable.  A CallTable is a function from the LibIds it    *)
(* holds to sequences of CallRef; the BTreeMap iterates its keys in        *)
(* ascending order.                                                        *)
(***************************************************************************)
CallRef(routine, sites) == [routine |-> routine, sites |-> sites]

NoRef == CallRef(<<>>, {})

EmptyTable == [l \in {} |-> <<>>]

\* Mutant: the keys in descending order.
RECURSIVE SortedKeysDescending(_)
SortedKeysDescending(S) ==
    IF S = {} THEN <<>>
    ELSE LET m == CHOOSE x \in S : \A y \in S \ {x} : LibIdLess(y, x)
         IN  <<m>> \o SortedKeysDescending(S \ {m})

\* BTreeMap iteration order: the keys in ascending order.
RECURSIVE SortedKeys(_)
SortedKeys(S) ==
    IF S = {} THEN <<>>
    ELSE LET m == CHOOSE x \in S : \A y \in S \ {x} : LibIdLess(x, y)
         IN  <<m>> \o SortedKeys(S \ {m})

TotalEntries(t) ==
    LET RECURSIVE Sum(_)
        Sum(S) == IF S = {} THEN 0
                  ELSE LET l == CHOOSE x \in S : TRUE
                       IN  Len(t[l]) + Sum(S \ {l})
    IN  Sum(DOMAIN t)

\* Mutant: only the entry pushed last is compared.
position_last_only(vec, routine) ==
    IF Len(vec) > 0 /\ vec[Len(vec)].routine = routine THEN Len(vec) - 1 ELSE -1

\* Iterator::position: 0-based index of the first element matching, or -1 (None).
position(vec, routine) ==
    IF \E i \in 1..Len(vec) : vec[i].routine = routine
    THEN (CHOOSE i \in 1..Len(vec) :
              /\ vec[i].routine = routine
              /\ \A j \in 1..(i - 1) : vec[j].routine # routine) - 1
    ELSE -1

\* BTreeMap::entry(id).or_default()
entry_or_default(t, id) ==
    IF id \in DOMAIN t THEN t
    ELSE [l \in DOMAIN t \cup {id} |-> IF l = id THEN <<>> ELSE t[l]]

OkIdx(i) == [ok |-> TRUE, idx |-> i, err |-> "", ref |-> NoRef]

OkRef(r) == [ok |-> TRUE, idx |-> 0, err |-> "", ref |-> r]

Err(e) == [ok |-> FALSE, idx |-> 0, err |-> e, ref |-> NoRef]

\* Mutant: entry(id).or_default() runs before the capacity checks.
find_or_insert_entry_first(t, id, routine) ==
    IF Cardinality(DOMAIN t) >= U16_MAX
    THEN [table |-> entry_or_default(t, id), res |-> Err("TooManyRoutines")]
    ELSE IF Cardinality(DOMAIN t) >= LIBS_SEGMENT_MAX_COUNT
    THEN [table |-> entry_or_default(t, id), res |-> Err("TooManyLibs")]
    ELSE LET t1  == entry_or_default(t, id)
             vec == t1[id]
             p   == position(vec, routine)
         IN  IF p # -1
             THEN [table |-> t1, res |-> OkIdx(as_u16(p))]
             ELSE [table |-> [t1 EXCEPT ![id] = Append(vec, CallRef(routine, {}))],
                   res   |-> OkIdx(as_u16((Len(vec) + 1) - 1))]

\* CallTable::find_or_insert: the table after the call and the value returned.
find_or_insert(t, id, routine) ==
    IF Cardinality(DOMAIN t) >= U16_MAX
    THEN [table |-> t, res |-> Err("TooManyRoutines")]
    ELSE IF Cardinality(DOMAIN t) >= LIBS_SEGMENT_MAX_COUNT
    THEN [table |-> t, res |-> Err("TooManyLibs")]
    ELSE LET t1  == entry_or_default(t, id)
             vec == t1[id]
             p   == position(vec, routine)
         IN  IF p # -1
             THEN [table |-> t1, res |-> OkIdx(as_u16(p))]
             ELSE [table |-> [t1 EXCEPT ![id] = Append(vec, CallRef(routine, {}))],
                   res   |-> OkIdx(as_u16((Len(vec) + 1) - 1))]

\* CallTable::get_mut: the CallRef at site (lib, pos), or the error.
get_mut(t, lib, pos) ==
    IF lib \notin DOMAIN t THEN Err("LibTableNotFound")
    ELSE IF pos + 1 > Len(t[lib]) THEN Err("RoutineNotFound")
    ELSE OkRef(t[lib][pos + 1])

\* CallTable::call_refs: (LibId, routine, sites) per CallRef, flattened.
call_refs(t) ==
    LET keys == SortedKeys(DOMAIN t)
        RECURSIVE Flat(_)
        Flat(k) ==
            IF k > Len(keys) THEN <<>>
            ELSE [i \in 1..Len(t[keys[k]]) |->
                     <<keys[k], t[keys[k]][i].routine, t[keys[k]][i].sites>>]
                 \o Flat(k + 1)
    IN  Flat(1)

\* CallTable::routines: the routine names, flattened.
routines(t) ==
    LET keys == SortedKeys(DOMAIN t)
        RECURSIVE Flat(_)
        Flat(k) ==
            IF k > Len(keys) THEN <<>>
            ELSE [i \in 1..Len(t[keys[k]]) |-> t[keys[k]][i].routine] \o Flat(k + 1)
    IN  Flat(1)

(***************************************************************************)
(* The codec.  A reader is the sequence of bytes still unread; a decoder   *)
(* returns [ok, val, rest, err].  The primitive codecs (u8, u16, String,   *)
(* ByteStr, MaxLenWord, LibId, LibSeg, Layout, MaybeNumber) belong to the  *)
(* aluvm crate and follow the wire format of the specification.            *)
(***************************************************************************)
ByteModulus == 256

as_u8(n) == n % ByteModulus

Good(v, rest) == [ok |-> TRUE, val |-> v, rest |-> rest, err |-> ""]

Bad(v, e) == [ok |-> FALSE, val |-> v, rest |-> <<>>, err |-> e]

\* Read::read_exact of n bytes.
ReadExact(b, n) ==
    IF Len(b) < n THEN Bad(<<>>, "Io")
    ELSE Good(SubSeq(b, 1, n), SubSeq(b, n + 1, Len(b)))

EncodeU8(n) == <<n>>

U8From(r) == IF r.ok THEN Good(r.val[1], r.rest) ELSE Bad(0, r.err)

DecodeU8(b) == U8From(ReadExact(b, 1))

EncodeU16(n) == <<n % ByteModulus, n \div ByteModulus>>

U16From(r) ==
    IF r.ok THEN Good(r.val[1] + ByteModulus * r.val[2], r.rest) ELSE Bad(0, r.err)

DecodeU16(b) == U16From(ReadExact(b, 2))

\* The bytes a decoded length n announces.
ReadCounted(n) == IF ~n.ok THEN Bad(<<>>, n.err) ELSE ReadExact(n.rest, n.val)

\* String: one length byte, then the UTF-8 bytes.
EncodeString(s) == EncodeU8(Len(s)) \o s

DecodeString(b) == ReadCounted(DecodeU8(b))

\* ByteStr: a word length, then the bytes.
EncodeByteStr(s) == EncodeU16(Len(s)) \o s

DecodeByteStr(b) == ReadCounted(DecodeU16(b))

\* Option<ByteStr>: None is written as the empty byte string.
EncodeOptByteStr(some, s) == IF some THEN EncodeByteStr(s) ELSE EncodeU16(0)

EncodeLibId(id) == id

DecodeLibId(b) == ReadExact(b, LibIdWidth)

\* MaybeNumber: a presence flag, then the number with its own width.
EncodeMaybeNumber(some, bytes) ==
    IF some THEN EncodeU8(1) \o EncodeU16(Len(bytes)) \o bytes ELSE EncodeU8(0)

NoNumber == [some |-> FALSE, bytes |-> <<>>]

NumberFrom(n) ==
    IF ~n.ok THEN Bad(NoNumber, n.err) ELSE Good([some |-> TRUE, bytes |-> n.val], n.rest)

MaybeNumberFrom(f) ==
    IF ~f.ok THEN Bad(NoNumber, f.err)
    ELSE IF f.val = 0 THEN Good(NoNumber, f.rest)
    ELSE IF f.val # 1 THEN Bad(NoNumber, "InvalidFlag")
    ELSE NumberFrom(DecodeByteStr(f.rest))

DecodeMaybeNumber(b) == MaybeNumberFrom(DecodeU8(b))

\* FloatLayout::with: the layout codes the machine knows.
FloatLayoutCodes == 2..9

(***************************************************************************)
(* DataType.  kind is the variant; some/bytes are the default value        *)
(* (Option<Vec<u8>> or MaybeNumber); signed/width are the IntLayout, and   *)
(* width is the layout code of a Float.                                    *)
(***************************************************************************)
DataTypeByteStr(some, bytes) ==
    [kind |-> "ByteStr", some |-> some, bytes |-> bytes, signed |-> FALSE, width |-> 0]

DataTypeInt(signed, width, some, bytes) ==
    [kind |-> "Int", some |-> some, bytes |-> bytes, signed |-> signed, width |-> width]

DataTypeFloat(code, some, bytes) ==
    [kind |-> "Float", some |-> some, bytes |-> bytes, signed |-> FALSE, width |-> code]

\* impl Encode for DataType
EncodeDataType(d) ==
    IF d.kind = "ByteStr"
    THEN EncodeU8(255) \o EncodeOptByteStr(d.some, d.bytes)
    ELSE IF d.kind = "Int"
    THEN EncodeU8(IF d.signed THEN 1 ELSE 0) \o EncodeU16(d.width)
         \o EncodeMaybeNumber(d.some, d.bytes)
    ELSE EncodeU8(d.width) \o EncodeMaybeNumber(d.some, d.bytes)

NoData == DataTypeByteStr(FALSE, <<>>)

\* 0xFF arm: an empty byte string is read back as None.
ByteStrArm(data) ==
    IF ~data.ok THEN Bad(NoData, data.err)
    ELSE Good(DataTypeByteStr(data.val # <<>>, data.val), data.rest)

\* i <= 1 arm, after the layout: the default value, taken as it comes.
IntArmNumber(signed, bytes, n) ==
    IF ~n.ok THEN Bad(NoData, n.err)
    ELSE Good(DataTypeInt(signed, bytes, n.val.some, n.val.bytes), n.rest)

\* i <= 1 arm: IntLayout { signed: i == 1, bytes }, then the MaybeNumber.
IntArm(i, w) ==
    IF ~w.ok THEN Bad(NoData, w.err)
    ELSE IntArmNumber(i = 1, w.val, DecodeMaybeNumber(w.rest))

FloatArmNumber(f, n) ==
    IF ~n.ok THEN Bad(NoData, n.err)
    ELSE Good(DataTypeFloat(f, n.val.some, n.val.bytes), n.rest)

\* f arm: FloatLayout::with(f), then the MaybeNumber.
FloatArm(f, rest) ==
    IF f \notin FloatLayoutCodes THEN Bad(NoData, "FloatLayout")
    ELSE FloatArmNumber(f, DecodeMaybeNumber(rest))

DataTypeFrom(t) ==
    IF ~t.ok THEN Bad(NoData, t.err)
    ELSE IF t.val = 255 THEN ByteStrArm(DecodeByteStr(t.rest))
    ELSE IF t.val <= 1 THEN IntArm(t.val, DecodeU16(t.rest))
    ELSE FloatArm(t.val, t.rest)

\* impl Decode for DataType
DecodeDataType(b) == DataTypeFrom(DecodeU8(b))

Variable(info, data) == [info |-> info, data |-> data]

NoVariable == Variable(<<>>, NoData)

\* impl Encode for Variable
EncodeVariable(v) == EncodeString(v.info) \o EncodeDataType(v.data)

VariableData(info, data) ==
    IF ~data.ok THEN Bad(NoVariable, data.err)
    ELSE Good(Variable(info, data.val), data.rest)

VariableFrom(info) ==
    IF ~info.ok THEN Bad(NoVariable, info.err)
    ELSE VariableData(info.val, DecodeDataType(info.rest))

\* impl Decode for Variable
DecodeVariable(b) == VariableFrom(DecodeString(b))

\* BTreeSet<u16> iteration order: ascending.
RECURSIVE SortedInts(_)
SortedInts(S) ==
    IF S = {} THEN <<>>
    ELSE LET m == CHOOSE x \in S : \A y \in S : x <= y
         IN  <<m>> \o SortedInts(S \ {m})

\* BTreeMap<String, u16> iteration order: the names in ascending order.
RECURSIVE SortedNames(_)
SortedNames(S) ==
    IF S = {} THEN <<>>
    ELSE LET m == CHOOSE x \in S : \A y \in S \ {x} : SeqLess(x, y)
         IN  <<m>> \o SortedNames(S \ {m})

\* The concatenation of the encodings encs[1], ..., encs[n].
RECURSIVE Concat(_)
Concat(encs) == IF encs = <<>> THEN <<>> ELSE Head(encs) \o Concat(Tail(encs))

\* MaxLenWord<BTreeSet<u16>>: a word count, then the offsets in ascending order.
EncodeSitesOrdered(ordered) ==
    EncodeU16(Len(ordered)) \o Concat([i \in 1..Len(ordered) |-> EncodeU16(ordered[i])])

EncodeSites(sites) == EncodeSitesOrdered(SortedInts(sites))

RECURSIVE DecodeSitesN(_, _, _)
SitesNext(n, x, acc) ==
    IF ~x.ok THEN Bad({}, x.err) ELSE DecodeSitesN(n - 1, x.rest, acc \cup {x.val})

DecodeSitesN(n, b, acc) ==
    IF n = 0 THEN Good(acc, b) ELSE SitesNext(n, DecodeU16(b), acc)

SitesFrom(n) == IF ~n.ok THEN Bad({}, n.err) ELSE DecodeSitesN(n.val, n.rest, {})

DecodeSites(b) == SitesFrom(DecodeU16(b))

\* impl Encode for CallRef
EncodeCallRef(c) == EncodeString(c.routine) \o EncodeSites(c.sites)

CallRefSites(routine, sites) ==
    IF ~sites.ok THEN Bad(NoRef, sites.err)
    ELSE Good(CallRef(routine, sites.val), sites.rest)

CallRefFrom(routine) ==
    IF ~routine.ok THEN Bad(NoRef, routine.err)
    ELSE CallRefSites(routine.val, DecodeSites(routine.rest))

\* impl Decode for CallRef
DecodeCallRef(b) == CallRefFrom(DecodeString(b))

\* MaxLenWord<Vec<CallRef>>
EncodeCallRefs(vec) ==
    EncodeU16(Len(vec)) \o Concat([i \in 1..Len(vec) |-> EncodeCallRef(vec[i])])

RECURSIVE DecodeCallRefsN(_, _, _)
CallRefsNext(n, x, acc) ==
    IF ~x.ok THEN Bad(<<>>, x.err) ELSE DecodeCallRefsN(n - 1, x.rest, Append(acc, x.val))

DecodeCallRefsN(n, b, acc) ==
    IF n = 0 THEN Good(acc, b) ELSE CallRefsNext(n, DecodeCallRef(b), acc)

CallRefsFrom(n) ==
    IF ~n.ok THEN Bad(<<>>, n.err) ELSE DecodeCallRefsN(n.val, n.rest, <<>>)

DecodeCallRefs(b) == CallRefsFrom(DecodeU16(b))

EncodeCallTableKeys(t, keys) ==
    Concat([k \in 1..Len(keys) |-> EncodeLibId(keys[k]) \o EncodeCallRefs(t[keys[k]])])

\* impl Encode for CallTable
EncodeCallTable(t) ==
    EncodeU8(as_u8(Cardinality(DOMAIN t))) \o EncodeCallTableKeys(t, SortedKeys(DOMAIN t))

\* BTreeMap::insert
MapInsert(t, key, value) ==
    [l \in DOMAIN t \cup {key} |-> IF l = key THEN value ELSE t[l]]

RECURSIVE DecodeCallTableN(_, _, _)
CallTableEntry(n, lib, vec, acc) ==
    IF ~vec.ok THEN Bad(EmptyTable, vec.err)
    ELSE DecodeCallTableN(n - 1, vec.rest, MapInsert(acc, lib, vec.val))

CallTableNext(n, lib, acc) ==
    IF ~lib.ok THEN Bad(EmptyTable, lib.err)
    ELSE CallTableEntry(n, lib.val, DecodeCallRefs(lib.rest), acc)

DecodeCallTableN(n, b, acc) ==
    IF n = 0 THEN Good(acc, b) ELSE CallTableNext(n, DecodeLibId(b), acc)

CallTableFrom(len) ==
    IF ~len.ok THEN Bad(EmptyTable, len.err)
    ELSE DecodeCallTableN(len.val, len.rest, EmptyTable)

\* impl Decode for CallTable
DecodeCallTable(b) == CallTableFrom(DecodeU8(b))

\* LibSeg: a byte count, then the LibIds in ascending order.
EncodeLibSegKeys(keys) ==
    EncodeU8(Len(keys)) \o Concat([k \in 1..Len(keys) |-> EncodeLibId(keys[k])])

EncodeLibSeg(libs) == EncodeLibSegKeys(SortedKeys(libs))

RECURSIVE DecodeLibSegN(_, _, _)
LibSegNext(n, lib, acc) ==
    IF ~lib.ok THEN Bad({}, lib.err) ELSE DecodeLibSegN(n - 1, lib.rest, acc \cup {lib.val})

DecodeLibSegN(n, b, acc) ==
    IF n = 0 THEN Good(acc, b) ELSE LibSegNext(n, DecodeLibId(b), acc)

LibSegFrom(n) == IF ~n.ok THEN Bad({}, n.err) ELSE DecodeLibSegN(n.val, n.rest, {})

DecodeLibSeg(b) == LibSegFrom(DecodeU8(b))

\* MaxLenWord<BTreeMap<String, u16>>: a word count, then (name, offset) pairs.
NoExports == [n \in {} |-> 0]

EncodeExportsNames(e, names) ==
    EncodeU16(Len(names))
    \o Concat([k \in 1..Len(names) |-> EncodeString(names[k]) \o EncodeU16(e[names[k]])])

EncodeExports(e) == EncodeExportsNames(e, SortedNames(DOMAIN e))

RECURSIVE DecodeExportsN(_, _, _)
ExportsEntry(n, name, offset, acc) ==
    IF ~offset.ok THEN Bad(NoExports, offset.err)
    ELSE DecodeExportsN(n - 1, offset.rest, MapInsert(acc, name, offset.val))

ExportsNext(n, name, acc) ==
    IF ~name.ok THEN Bad(NoExports, name.err)
    ELSE ExportsEntry(n, name.val, DecodeU16(name.rest), acc)

DecodeExportsN(n, b, acc) ==
    IF n = 0 THEN Good(acc, b) ELSE ExportsNext(n, DecodeString(b), acc)

ExportsFrom(n) ==
    IF ~n.ok THEN Bad(NoExports, n.err) ELSE DecodeExportsN(n.val, n.rest, NoExports)

DecodeExports(b) == ExportsFrom(DecodeU16(b))

\* MaxLenWord<Vec<Variable>>
EncodeVars(vs) ==
    EncodeU16(Len(vs)) \o Concat([i \in 1..Len(vs) |-> EncodeVariable(vs[i])])

RECURSIVE DecodeVarsN(_, _, _)
VarsNext(n, x, acc) ==
    IF ~x.ok THEN Bad(<<>>, x.err) ELSE DecodeVarsN(n - 1, x.rest, Append(acc, x.val))

DecodeVarsN(n, b, acc) ==
    IF n = 0 THEN Good(acc, b) ELSE VarsNext(n, DecodeVariable(b), acc)

VarsFrom(n) == IF ~n.ok THEN Bad(<<>>, n.err) ELSE DecodeVarsN(n.val, n.rest, <<>>)

DecodeVars(b) == VarsFrom(DecodeU16(b))

(***************************************************************************)
(* Module.                                                                 *)
(***************************************************************************)
Module(isae, code, data, libs, vs, imports, exports) ==
    [isae |-> isae, code |-> code, data |-> data, libs |-> libs, vars |-> vs,
     imports |-> imports, exports |-> exports]

\* Module::default()
DefaultModule == Module(<<>>, <<>>, <<>>, {}, <<>>, EmptyTable, NoExports)

\* impl Encode for Module
EncodeModule(m) ==
    EncodeString(m.isae)
    \o EncodeByteStr(m.code)
    \o EncodeByteStr(m.data)
    \o EncodeLibSeg(m.libs)
    \o EncodeCallTable(m.imports)
    \o EncodeExports(m.exports)
    \o EncodeVars(m.vars)

(***************************************************************************)
(* impl Decode for Module.  The struct literal reads its fields in the     *)
(* order isae, code, data, libs, imports, exports, vars; each `?` returns  *)
(* the field's error at once, and the Module is built only after the last. *)
(* A reading in progress is [ok, val, rest, err] with val the fields read  *)
(* so far.                                                                 *)
(***************************************************************************)
\* Mutant: unwrap_or_default() in place of `?`: a failed field is left at its default.
FieldOrDefault(r, m) == Good(m, r.rest)

\* `?` on the field just read: its error, or the reading carried on by `m`.
Field(r, m) == IF ~r.ok THEN Bad(DefaultModule, r.err) ELSE Good(m, r.rest)

ReadIsae(r) == Field(r, [DefaultModule EXCEPT !.isae = r.val])

ReadCode(st, r) == Field(r, [st.val EXCEPT !.code = r.val])

ReadData(st, r) == Field(r, [st.val EXCEPT !.data = r.val])

ReadLibs(st, r) == Field(r, [st.val EXCEPT !.libs = r.val])

ReadImports(st, r) == Field(r, [st.val EXCEPT !.imports = r.val])

ReadExports(st, r) == Field(r, [st.val EXCEPT !.exports = r.val])

ReadVars(st, r) == Field(r, [st.val EXCEPT !.vars = r.val])

DecodeIsae(b) == ReadIsae(DecodeString(b))

DecodeCode(st) == IF ~st.ok THEN st ELSE ReadCode(st, DecodeByteStr(st.rest))

DecodeData(st) == IF ~st.ok THEN st ELSE ReadData(st, DecodeByteStr(st.rest))

DecodeLibs(st) == IF ~st.ok THEN st ELSE ReadLibs(st, DecodeLibSeg(st.rest))

DecodeImports(st) == IF ~st.ok THEN st ELSE ReadImports(st, DecodeCallTable(st.rest))

DecodeExportsField(st) == IF ~st.ok THEN st ELSE ReadExports(st, DecodeExports(st.rest))

DecodeVarsField(st) == IF ~st.ok THEN st ELSE ReadVars(st, DecodeVars(st.rest))

DecodeModule(b) ==
    DecodeVarsField(DecodeExportsField(DecodeImports(DecodeLibs(DecodeData(
        DecodeCode(DecodeIsae(b)))))))

(***************************************************************************)
(* State.                                                                  *)
(*   table        the CallTable                                            *)
(*   last         the last CallTable call made and what it returned        *)
(*   first_index  history: the index the first successful                  *)
(*                find_or_insert(lib, r) returned, -1 before any           *)
(*   module       the Module handed to the encoder                         *)
(*   buf          the bytes written by the encoder / given to the decoder  *)
(*   cut          whether buf was truncated after encoding                 *)
(*   craft        the hand-written Variable encoding's layout and data     *)
(*   out          what Module::decode returned                             *)
(*   vout         what Variable::decode returned                           *)
(*   phase        where the codec run stands                               *)
(***************************************************************************)
VARIABLES table, last, first_index, module, buf, cut, craft, out, vout, phase

table_vars == <<table, last, first_index>>

codec_vars == <<module, buf, cut, craft, out, vout, phase>>

vars == <<table, last, first_index, module, buf, cut, craft, out, vout, phase>>

NoCall ==
    [op |-> "none", lib |-> MkLibId(0, 0), routine |-> <<>>, pos |-> 0, res |-> Err("")]

NoCraft == [info |-> <<>>, layout_bytes |-> 0, data_bytes |-> 0]

NoOut == Bad(DefaultModule, "")

NoVout == Bad(NoVariable, "")

TableInit ==
    /\ table = EmptyTable
    /\ last = NoCall
    /\ first_index = [p \in LibIds \X Routines |-> -1]

CodecIdle ==
    /\ module = DefaultModule
    /\ buf = <<>>
    /\ cut = FALSE
    /\ craft = NoCraft
    /\ out = NoOut
    /\ vout = NoVout

(***************************************************************************)
(* Spec: the CallTable under find_or_insert and get_mut calls.             *)
(***************************************************************************)
Init == TableInit /\ CodecIdle /\ phase = "idle"

\* The routine names the table holds, under any library.
UsedNames == UNION {{table[l][i].routine : i \in 1..Len(table[l])} : l \in DOMAIN table}

(***************************************************************************)
(* find_or_insert only compares routine names for equality, so the names   *)
(* are interchangeable: the callers' k-th distinct name is called          *)
(* RoutineName(k).  A call passes a name the table holds or the next       *)
(* unused one.                                                             *)
(***************************************************************************)
CallableNames ==
    UsedNames \cup {RoutineName(k) : k \in {Cardinality(UsedNames) + 1} \cap (1..MaxRoutines)}

FindOrInsert(id, routine) ==
    /\ TotalEntries(table) < MaxEntries
    /\ routine \in CallableNames
    /\ LET r == find_or_insert(table, id, routine)
       IN  /\ table' = r.table
           /\ last' = [op |-> "find_or_insert", lib |-> id, routine |-> routine,
                       pos |-> 0, res |-> r.res]
           /\ first_index' =
                  IF r.res.ok /\ first_index[<<id, routine>>] = -1
                  THEN [first_index EXCEPT ![<<id, routine>>] = r.res.idx]
                  ELSE first_index
    /\ UNCHANGED codec_vars

GetMut(lib, pos) ==
    /\ last' = [op |-> "get_mut", lib |-> lib, routine |-> <<>>, pos |-> pos,
                res |-> get_mut(table, lib, pos)]
    /\ UNCHANGED <<table, first_index>>
    /\ UNCHANGED codec_vars

Next ==
    \/ \E id \in LibIds, routine \in Routines : FindOrInsert(id, routine)
    \/ \E lib \in LibIds, pos \in 0..U16_MAX : GetMut(lib, pos)

Spec == Init /\ [][Next]_vars

(***************************************************************************)
(* SpecCodec: Modules and hand-written Variable encodings through the      *)
(* codec.                                                                  *)
(***************************************************************************)
MaxVars == 1

IsaeSet == {<<>>, <<65, 76, 85>>}

CodeSet == {<<1, 2, 3>>}

DataSet == {<<9>>}

LibSegSet == {{}, {MkLibId(1, 0), MkLibId(0, 2)}}

ImportsSet ==
    { EmptyTable,
      MapInsert(EmptyTable, MkLibId(1, 0),
                <<CallRef(<<97>>, {}), CallRef(<<98, 99>>, {3, 260})>>),
      MapInsert(MapInsert(EmptyTable, MkLibId(1, 0), <<CallRef(<<97>>, {7})>>),
                MkLibId(0, 2), <<>>) }

ExportsSet == {NoExports, MapInsert(MapInsert(NoExports, <<103>>, 513), <<102, 102>>, 0)}

InfoSet == {<<>>, <<120>>}

DataTypeSet ==
    { DataTypeByteStr(FALSE, <<>>),
      DataTypeByteStr(TRUE, <<>>),
      DataTypeByteStr(TRUE, <<5, 6>>),
      DataTypeInt(FALSE, 2, FALSE, <<>>),
      DataTypeInt(TRUE, 2, TRUE, <<1, 2>>),
      DataTypeFloat(4, FALSE, <<>>),
      DataTypeFloat(3, TRUE, <<0, 60>>) }

VariableSet ==
    {Variable(IF d.kind = "Int" THEN <<120>> ELSE <<>>, d) : d \in DataTypeSet}

RECURSIVE SeqsUpTo(_, _)
SeqsUpTo(S, n) ==
    IF n = 0 THEN {<<>>}
    ELSE LET shorter == SeqsUpTo(S, n - 1)
         IN  shorter \cup {Append(q, x) : q \in {p \in shorter : Len(p) = n - 1}, x \in S}

VarsSet == SeqsUpTo(VariableSet, MaxVars)

Modules ==
    {Module(i, c, d, l, v, t, e) :
        i \in IsaeSet, c \in CodeSet, d \in DataSet, l \in LibSegSet,
        v \in VarsSet, t \in ImportsSet, e \in ExportsSet}

\* The layout widths and default-value widths of hand-written Variables.
WidthSet == {2, 4}

InitCodec ==
    /\ TableInit
    /\ buf = <<>>
    /\ cut = FALSE
    /\ craft = NoCraft
    /\ out = NoOut
    /\ vout = NoVout
    /\ module = DefaultModule
    /\ phase = "start"

\* The assembler hands over a finished Module.
Build(m) ==
    /\ phase = "start"
    /\ module' = m
    /\ phase' = "built"
    /\ UNCHANGED <<buf, cut, craft, out, vout>>
    /\ UNCHANGED table_vars

\* module.encode(&mut buf)
Encode ==
    /\ phase = "built"
    /\ buf' = EncodeModule(module)
    /\ phase' = "encoded"
    /\ UNCHANGED <<module, cut, craft, out, vout>>
    /\ UNCHANGED table_vars

\* The input ends after k of the bytes written.
Truncate(k) ==
    /\ phase = "encoded"
    /\ k < Len(buf)
    /\ buf' = SubSeq(buf, 1, k)
    /\ cut' = TRUE
    /\ phase' = "truncated"
    /\ UNCHANGED <<module, craft, out, vout>>
    /\ UNCHANGED table_vars

\* Module::decode(&buf[..])
Decode ==
    /\ phase \in {"encoded", "truncated"}
    /\ out' = DecodeModule(buf)
    /\ phase' = "decoded"
    /\ UNCHANGED <<module, buf, cut, craft, vout>>
    /\ UNCHANGED table_vars

\* A Variable written by hand: an Integer layout of n bytes, a default value of m bytes.
CraftVariable(info, signed, n, m) ==
    /\ phase = "start"
    /\ buf' = EncodeString(info)
              \o EncodeU8(IF signed THEN 1 ELSE 0) \o EncodeU16(n)
              \o EncodeMaybeNumber(TRUE, [i \in 1..m |-> i])
    /\ craft' = [info |-> info, layout_bytes |-> n, data_bytes |-> m]
    /\ phase' = "crafted"
    /\ UNCHANGED <<module, cut, out, vout>>
    /\ UNCHANGED table_vars

\* Variable::decode(&buf[..])
DecodeVar ==
    /\ phase = "crafted"
    /\ vout' = DecodeVariable(buf)
    /\ phase' = "vdecoded"
    /\ UNCHANGED <<module, buf, cut, craft, out>>
    /\ UNCHANGED table_vars

NextCodec ==
    \/ \E m \in Modules : Build(m)
    \/ Encode
    \/ \E k \in 0..Len(buf) : Truncate(k)
    \/ Decode
    \/ \E info \in InfoSet, signed \in BOOLEAN, n \in WidthSet, m \in WidthSet :
           CraftVariable(info, signed, n, m)
    \/ DecodeVar

SpecCodec == InitCodec /\ [][NextCodec]_vars

(***************************************************************************)
(* Claims about the CallTable, checked under Spec.                         *)
(***************************************************************************)
\* The step is a find_or_insert call (last' describes it).
IsFindOrInsert(l) == l.op = "find_or_insert"

HasRoutine(t, lib, routine) == lib \in DOMAIN t /\ position(t[lib], routine) # -1

\* C1: once find_or_insert(lib, r) has returned index i, every later
\* find_or_insert(lib, r) returns the same index i.
C1_IndexStable ==
    [][ (IsFindOrInsert(last') /\ first_index[<<last'.lib, last'.routine>>] # -1)
        => (last'.res.ok /\ last'.res.idx = first_index[<<last'.lib, last'.routine>>]) ]_vars

\* C2: no library's CallRef sequence holds two entries with equal routine names.
C2_Dedup ==
    \A l \in DOMAIN table :
        \A i, j \in 1..Len(table[l]) :
            i # j => table[l][i].routine # table[l][j].routine

\* C2 witness: a call found a routine inserted earlier, in front of later entries.
C2_Witness ==
    /\ IsFindOrInsert(last)
    /\ last.res.ok
    /\ Len(table[last.lib]) >= 3
    /\ Len(table[last.lib]) <= U16_MAX
    /\ last.res.idx = 0

\* C3: with U16_MAX distinct entries in the table, a find_or_insert of a further
\* distinct pair fails (with TooManyRoutines) and leaves the table unchanged; the
\* total number of entries never exceeds U16_MAX.  The kind of the failure is
\* left open, so that a violation is a call that succeeds on a full table.
C3_RoutineCapacity ==
    /\ [](TotalEntries(table) <= U16_MAX)
    /\ [][ (/\ IsFindOrInsert(last')
            /\ TotalEntries(table) = U16_MAX
            /\ ~HasRoutine(table, last'.lib, last'.routine))
           => (~last'.res.ok /\ table' = table) ]_vars

\* C4: find_or_insert fails with TooManyLibs exactly when lib is not yet a key and
\* adding it would exceed LIBS_SEGMENT_MAX_COUNT; never when lib is already present.
C4_LibCapacity ==
    [][ IsFindOrInsert(last')
        => ( (last'.res = Err("TooManyLibs"))
             <=> (/\ last'.lib \notin DOMAIN table
                  /\ Cardinality(DOMAIN table) + 1 > LIBS_SEGMENT_MAX_COUNT) ) ]_vars

\* C5: a find_or_insert that returns an error leaves the CallTable as it was:
\* no library key added, no CallRef appended, no site set changed.
C5_NoPartialInsert ==
    [][ (IsFindOrInsert(last') /\ ~last'.res.ok) => table' = table ]_vars

\* C5 witness: a call naming a library the table does not hold has failed.
C5_Witness ==
    /\ IsFindOrInsert(last)
    /\ ~last.res.ok
    /\ last.lib \notin DOMAIN table
    /\ table # EmptyTable

\* The CallRefs of library l in a flattening, in the order they appear.
Block(flat, l) == SelectSeq(flat, LAMBDA e : e[1] = l)

IsPrefix(p, q) == Len(p) <= Len(q) /\ SubSeq(q, 1, Len(p)) = p

C7_State ==
    LET flat  == call_refs(table)
        names == routines(table)
    IN  /\ Len(flat) = TotalEntries(table)
        /\ Len(names) = Len(flat)
        /\ \A i \in 1..Len(flat) : names[i] = flat[i][2]
        /\ \A i, j \in 1..Len(flat) : i < j => ~LibIdLess(flat[j][1], flat[i][1])
        /\ \A l \in DOMAIN table :
               /\ Len(Block(flat, l)) = Len(table[l])
               /\ \A k \in 1..Len(table[l]) :
                      Block(flat, l)[k] = <<l, table[l][k].routine, table[l][k].sites>>

C7_Step ==
    table' # table => \A l \in DOMAIN table : IsPrefix(Block(call_refs(table), l), Block(call_refs(table'), l))

\* C7: routines() and call_refs() yield one element per CallRef, the libraries in
\* ascending LibId order whatever the order they were inserted in, and within a
\* library in first-insertion order (a new CallRef goes to the end of its block).
C7_FlatteningOrder == [] C7_State /\ [][C7_Step]_vars

\* C7 witness: after find_or_insert(A, x), (A, y), (A, x), (B, x) with A < B the
\* last call returned 0 and routines() reads x, y, x.
C7_Witness ==
    /\ IsFindOrInsert(last)
    /\ last.res = OkIdx(0)
    /\ \E a, b \in DOMAIN table :
           /\ LibIdLess(a, b)
           /\ last.lib = b
           /\ last.routine = table[a][1].routine
           /\ Len(table[a]) = 2
           /\ Len(table[b]) = 1
           /\ routines(table) = <<table[a][1].routine, table[a][2].routine,
                                  table[a][1].routine>>

\* C10: if find_or_insert(lib, r) returns Ok(i), get_mut(LibSite{lib, pos: i})
\* yields the CallRef named r; distinct routine names of one library never
\* receive the same index.
C10_IndexResolves ==
    /\ (IsFindOrInsert(last) /\ last.res.ok)
           => LET g == get_mut(table, last.lib, last.res.idx)
              IN  g.ok /\ g.ref.routine = last.routine
    /\ \A l \in LibIds : \A r1, r2 \in Routines :
           (r1 # r2 /\ first_index[<<l, r1>>] # -1 /\ first_index[<<l, r2>>] # -1)
               => first_index[<<l, r1>>] # first_index[<<l, r2>>]

(***************************************************************************)
(* Claims about the codec, checked under SpecCodec.                        *)
(***************************************************************************)
\* C6: for every Module m, decode(encode(m)) succeeds and equals m.
C6_RoundTrip ==
    (phase = "decoded" /\ ~cut) => (out.ok /\ out.val = module)

\* C8: a Variable whose Integer layout declares N bytes while its default value
\* carries M # N bytes decodes to the error VarWrongLayout.
C8_VarWrongLayout ==
    (phase = "vdecoded" /\ craft.layout_bytes # craft.data_bytes)
        => (~vout.ok /\ vout.err = "VarWrongLayout")

\* C9: when the input ends before a field of the Module is complete,
\* Module::decode returns an error and no Module, whichever field is cut.
C9_TruncationRejected ==
    (phase = "decoded" /\ cut) => (~out.ok /\ out.val = DefaultModule)

\* C9 witness: the input ended inside the bytes of the code field.
C9_Witness ==
    /\ phase = "decoded"
    /\ cut
    /\ module.code # <<>>
    /\ Len(buf) = Len(EncodeString(module.isae)) + 3
    /\ ~out.ok

====
